---- MODULE Spec2Model ----
(***************************************************************************)
(* Model of htm/tlb.c: a software TLB (struct tlb_cache tlb) with          *)
(* tlb_init, tlb_exit, tlb_dump, tlb_ra_get and tlb_ra_set.                *)
(*                                                                         *)
(* uint64_t values (ea, ra, size, flags) are kept at their full width of   *)
(* 64 bits as four 16-bit limbs <<l3, l2, l1, l0>>, most significant       *)
(* first, and the arithmetic below is arithmetic modulo 2^64.              *)
(* A failed assert() ends the process: aborted becomes TRUE and no         *)
(* operation runs afterwards.                                              *)
(***************************************************************************)
EXTENDS Integers, Sequences, FiniteSets, TLC

\* ------------------------------------------------------------- bounds
\* Number of slots of the store the model is checked with (tlb.c:21 sets 256).
TLB_SIZE == 2
\* The guards keep the sum of all counters (tlb.translations,
\* tlb.translation_changes and every entry's hit_count and miss_count) at
\* most MaxCount.
MaxCount == 2

\* ------------------------------------------------- uint64_t arithmetic
Limb == 2^16

u64(n) == <<0, 0, 0, n>>

\* hi * 2^16 + lo
u64x(hi, lo) == <<0, 0, hi, lo>>

RECURSIVE BitAnd16(_, _)
BitAnd16(a, b) ==
    IF a = 0 \/ b = 0 THEN 0
    ELSE IF a = Limb - 1 THEN b
    ELSE IF b = Limb - 1 THEN a
    ELSE (a % 2) * (b % 2) + 2 * BitAnd16(a \div 2, b \div 2)

\* a & b
And64(a, b) ==
    << BitAnd16(a[1], b[1]), BitAnd16(a[2], b[2]),
       BitAnd16(a[3], b[3]), BitAnd16(a[4], b[4]) >>

\* ~a
Not64(a) == << Limb - 1 - a[1], Limb - 1 - a[2], Limb - 1 - a[3], Limb - 1 - a[4] >>

\* a | b
Or64(a, b) ==
    << a[1] + b[1] - BitAnd16(a[1], b[1]), a[2] + b[2] - BitAnd16(a[2], b[2]),
       a[3] + b[3] - BitAnd16(a[3], b[3]), a[4] + b[4] - BitAnd16(a[4], b[4]) >>

\* a + b, modulo 2^64 (the carry out of the top limb is dropped)
Add64(a, b) ==
    LET s4 == a[4] + b[4]
        s3 == a[3] + b[3] + (s4 \div Limb)
        s2 == a[2] + b[2] + (s3 \div Limb)
        s1 == a[1] + b[1] + (s2 \div Limb)
    IN  << s1 % Limb, s2 % Limb, s3 % Limb, s4 % Limb >>

\* -b, modulo 2^64 (two's complement)
Neg64(b) == Add64(Not64(b), u64(1))

\* a - b, modulo 2^64
Sub64(a, b) == Add64(a, Neg64(b))

\* The uint64_t words 1 and -1.
One64 == u64(1)
MinusOne64 == Neg64(One64)

\* a < b, unsigned
Lt64(a, b) ==
    \/ a[1] < b[1]
    \/ a[1] = b[1] /\ a[2] < b[2]
    \/ a[1] = b[1] /\ a[2] = b[2] /\ a[3] < b[3]
    \/ a[1] = b[1] /\ a[2] = b[2] /\ a[3] = b[3] /\ a[4] < b[4]

Zero64 == u64(0)

\* ------------------------------------------------------ program constants
\* tlb.h (not among the sources): the one defined flag bit.
TLB_FLAGS_RELOC == u64(1)
TLB_FLAGS_AVALIABLE == TLB_FLAGS_RELOC
\* ~(TLB_FLAGS_AVALIABLE)
FlagsNotAvailable == Not64(TLB_FLAGS_AVALIABLE)

Slots == 0 .. (TLB_SIZE - 1)

\* A slot after memset(&tlb, 0, sizeof(tlb)).
ZeroEntry ==
    [ea |-> Zero64, ra |-> Zero64, size |-> Zero64, flags |-> Zero64,
     hit_count |-> 0, miss_count |-> 0, valid |-> FALSE]

ZeroCache ==
    [tlb |-> [i \in Slots |-> ZeroEntry], next |-> 0, translations |-> 0,
     no_translation |-> 0, translation_changes |-> 0]

\* ------------------------------------------------------------- helpers
\* t->size - 1, computed as t->size + (-1) modulo 2^64
tlb_mask_offset(t) == Add64(t.size, MinusOne64)

tlb_mask_rpn(t) == Not64(tlb_mask_offset(t))

\* Faulty variant of tlb_pagesize_validate that lets every size pass.
tlb_pagesize_validate_any(size) == TRUE

\* TRUE iff the assert passes.
tlb_pagesize_validate(size) ==
    (size = u64(4096)) \/ (size = u64x(1, 0)) \/ (size = u64x(256, 0))

\* TRUE iff the assert passes.
tlb_flags_validate(flags) == And64(flags, FlagsNotAvailable) = Zero64

\* Faulty variant of tlb_equal that also compares hit_count.
tlb_equal_hit_count(t1, t2) ==
    /\ t1.ea = t2.ea
    /\ t1.ra = t2.ra
    /\ t1.size = t2.size
    /\ t1.flags = t2.flags
    /\ t1.valid = t2.valid
    /\ t1.hit_count = t2.hit_count

tlb_equal(t1, t2) ==
    /\ t1.ea = t2.ea
    /\ t1.ra = t2.ra
    /\ t1.size = t2.size
    /\ t1.flags = t2.flags
    /\ t1.valid = t2.valid

\* TRUE iff every assert passes (they are evaluated in this order).
tlb_entry_validate(t) ==
    /\ t.valid
    /\ tlb_pagesize_validate(t.size)
    /\ tlb_flags_validate(t.flags)
    /\ LET mask == tlb_mask_offset(t) IN
       /\ And64(t.ea, mask) = Zero64
       /\ And64(t.ra, mask) = Zero64

\* Faulty variant of tlb_match that does not compare the flags.
tlb_match_any_flags(ea, flags, t) ==
    /\ ~ Lt64(ea, t.ea)
    /\ Lt64(ea, Add64(t.ea, t.size))

\* The three tests of tlb_match, after its tlb_entry_validate(t).
\* t->ea + t->size is a uint64_t sum: it wraps modulo 2^64.
tlb_match(ea, flags, t) ==
    /\ ~ Lt64(ea, t.ea)
    /\ Lt64(ea, Add64(t.ea, t.size))
    /\ flags = t.flags

\* Bind(v, F) is F(v) with v evaluated once, before F uses it:
\* "LET x == v IN F(x)" for a v that is costly to evaluate.
Bind(v, F(_)) == CHOOSE y \in { F(x) : x \in {v} } : TRUE

\* Faulty variant of __tlb_get_index that does not count the hit.
RECURSIVE __tlb_get_index_no_hit(_, _, _, _)
__tlb_get_index_no_hit(c, ea, flags, start) ==
    IF start >= c.next
    THEN [index |-> -1, abort |-> FALSE, c |-> c]
    ELSE IF ~ tlb_entry_validate(c.tlb[start])
    THEN [index |-> -1, abort |-> TRUE, c |-> c]
    ELSE IF tlb_match(ea, flags, c.tlb[start])
    THEN [index |-> start, abort |-> FALSE, c |-> c]
    ELSE __tlb_get_index_no_hit(c, ea, flags, start + 1)

\* for (i = start; i < tlb.next; i++) ...: the result is
\* [index, abort, c]: the index returned (-1 when none), whether an assert
\* failed on the way, and the cache as the scan leaves it (hit_count++).
\* The tlb_entry_validate(t) repeated after a match asserts what
\* tlb_match has just asserted of the same t.
RECURSIVE __tlb_get_index(_, _, _, _)
__tlb_get_index(c, ea, flags, start) ==
    IF start >= c.next
    THEN [index |-> -1, abort |-> FALSE, c |-> c]
    ELSE IF ~ tlb_entry_validate(c.tlb[start])
    THEN [index |-> -1, abort |-> TRUE, c |-> c]
    ELSE IF tlb_match(ea, flags, c.tlb[start])
    THEN [index |-> start, abort |-> FALSE,
          c |-> [c EXCEPT !.tlb[start].hit_count = @ + 1]]
    ELSE __tlb_get_index(c, ea, flags, start + 1)

tlb_get_index(c, ea, flags) == __tlb_get_index(c, ea, flags, 0)

\* The "Check for overlaps" loop of tlb_validate, from slot i on: [abort, c].
\* An assert fails when a scan's own asserts fail or when it returns an
\* index; the scan that returns an index has counted a hit on it.
RECURSIVE validate_overlaps(_, _)
validate_overlaps(c, i) ==
    IF i >= c.next
    THEN [abort |-> FALSE, c |-> c]
    ELSE Bind(__tlb_get_index(c, c.tlb[i].ea, c.tlb[i].flags, i + 1),
              LAMBDA r1 :
         IF r1.abort \/ r1.index # -1
         THEN [abort |-> TRUE, c |-> r1.c]
         ELSE Bind(__tlb_get_index(r1.c,
                       Add64(Add64(c.tlb[i].ea, c.tlb[i].size), MinusOne64),
                       c.tlb[i].flags, i + 1),
                   LAMBDA r2 :
              IF r2.abort \/ r2.index # -1
              THEN [abort |-> TRUE, c |-> r2.c]
              ELSE validate_overlaps(r2.c, i + 1)))

\* The "Check for holes" loop of tlb_validate: TRUE iff every assert passes.
validate_holes(c) ==
    \A i \in Slots : (~ c.tlb[i].valid) \/ (IF i = 0 THEN TRUE ELSE c.tlb[i - 1].valid)

\* [abort, c]
tlb_validate(c) ==
    Bind(c, LAMBDA c0 :
    IF ~ (c0.next <= TLB_SIZE)
    THEN [abort |-> TRUE, c |-> c0]
    ELSE Bind(validate_overlaps(c0, 0), LAMBDA r :
         IF r.abort THEN r
         ELSE [abort |-> ~ validate_holes(r.c), c |-> r.c]))

\* Faulty variant of tlb_translate that returns the start of the real page.
tlb_translate_page_start(ea, flags, t) ==
    IF /\ ~ Lt64(ea, t.ea)
       /\ Lt64(ea, Add64(t.ea, t.size))
       /\ tlb_flags_validate(flags)
       /\ tlb_entry_validate(t)
    THEN [abort |-> FALSE, ra |-> And64(t.ra, tlb_mask_rpn(t))]
    ELSE [abort |-> TRUE, ra |-> Zero64]

\* [abort, ra]
tlb_translate(ea, flags, t) ==
    IF /\ ~ Lt64(ea, t.ea)
       /\ Lt64(ea, Add64(t.ea, t.size))
       /\ tlb_flags_validate(flags)
       /\ tlb_entry_validate(t)
    THEN [abort |-> FALSE,
          ra |-> Or64(And64(ea, tlb_mask_offset(t)), And64(t.ra, tlb_mask_rpn(t)))]
    ELSE [abort |-> TRUE, ra |-> Zero64]

\* Faulty variant of tlb_init that does not clear the cache.
tlb_init_no_clear(c) == tlb_validate(c)

\* [abort, c]
tlb_init(c) == tlb_validate(ZeroCache)

\* Faulty variant of tlb_exit that clears the cache before it validates.
tlb_exit_clear(c) == tlb_validate(ZeroCache)

\* [abort, c]
tlb_exit(c) == tlb_validate(c)

\* [abort, found, ra, pagesize, c]; out_ra and out_pagesize are what the
\* caller's *ra and *pagesize hold before the call: they are written only
\* when an entry is found.
tlb_ra_get(c, ea, flags, out_ra, out_pagesize) ==
    Bind(tlb_get_index([c EXCEPT !.translations = @ + 1], ea, flags), LAMBDA r :
    IF r.abort
    THEN [abort |-> TRUE, found |-> FALSE, ra |-> out_ra,
          pagesize |-> out_pagesize, c |-> r.c]
    ELSE IF r.index < 0
    THEN [abort |-> FALSE, found |-> FALSE, ra |-> out_ra,
          pagesize |-> out_pagesize,
          c |-> [r.c EXCEPT !.no_translation = @ + 1]]
    ELSE Bind(tlb_translate(ea, flags, r.c.tlb[r.index]), LAMBDA tr :
         IF tr.abort
         THEN [abort |-> TRUE, found |-> FALSE, ra |-> out_ra,
               pagesize |-> out_pagesize, c |-> r.c]
         ELSE [abort |-> FALSE, found |-> TRUE, ra |-> tr.ra,
               pagesize |-> r.c.tlb[r.index].size, c |-> r.c]))

\* Faulty variant of tlb_new_entry that stores ra as given.
tlb_new_entry_raw_ra(ea, flags, ra, pagesize, junk_hit, junk_miss) ==
    [size |-> pagesize,
     ea |-> And64(ea, tlb_mask_rpn([size |-> pagesize])),
     ra |-> ra,
     flags |-> flags,
     valid |-> TRUE,
     hit_count |-> junk_hit,
     miss_count |-> junk_miss]

\* struct tlbe tnew of tlb_ra_set: size, ea, ra, flags and valid are
\* assigned; hit_count and miss_count are never assigned, so they hold
\* whatever the stack held (junk_hit, junk_miss).
tlb_new_entry(ea, flags, ra, pagesize, junk_hit, junk_miss) ==
    [size |-> pagesize,
     ea |-> And64(ea, tlb_mask_rpn([size |-> pagesize])),
     ra |-> And64(ra, tlb_mask_rpn([size |-> pagesize])),
     flags |-> flags,
     valid |-> TRUE,
     hit_count |-> junk_hit,
     miss_count |-> junk_miss]

\* Faulty variant of tlb_set_index that advances tlb.next by two.
tlb_set_index_skip(r) ==
    IF r.index < 0
    THEN [index |-> r.c.next, c |-> [r.c EXCEPT !.next = @ + 2]]
    ELSE [index |-> r.index, c |-> r.c]

\* Faulty variant of tlb_set_index that does not advance tlb.next.
tlb_set_index_keep_next(r) ==
    IF r.index < 0
    THEN [index |-> r.c.next, c |-> r.c]
    ELSE [index |-> r.index, c |-> r.c]

\* The slot tlb_ra_set resolves to, from the scan's result r: [index, c].
\* No entry found: index = tlb.next; tlb.next++.
tlb_set_index(r) ==
    IF r.index < 0
    THEN [index |-> r.c.next, c |-> [r.c EXCEPT !.next = @ + 1]]
    ELSE [index |-> r.index, c |-> r.c]

\* tlb_ra_set from "Generate new entry" on, with the slot s = [index, c]
\* and the new entry tnew: [abort, c, debug].
tlb_set_entry(s, tnew) ==
    IF tlb_equal(tnew, s.c.tlb[s.index])
    THEN [abort |-> FALSE,
          c |-> [s.c EXCEPT !.tlb[s.index].miss_count = @ + 1],
          debug |-> 0]
    ELSE Bind(tlb_validate(
                 [s.c EXCEPT !.translation_changes =
                                 IF s.c.tlb[s.index].valid THEN @ + 1 ELSE @,
                             !.tlb[s.index] = tnew]),
              LAMBDA v : [abort |-> v.abort, c |-> v.c, debug |-> 0])

\* [abort, c, debug]: debug is tlb_debug as the call leaves it.
tlb_ra_set(c, debug, ea, flags, ra, pagesize, junk_hit, junk_miss) ==
    IF ~ tlb_pagesize_validate(pagesize) \/ ~ tlb_flags_validate(flags)
    THEN [abort |-> TRUE, c |-> c, debug |-> debug]
    ELSE Bind(tlb_get_index(c, ea, flags), LAMBDA r :
         IF r.abort
         THEN [abort |-> TRUE, c |-> r.c, debug |-> debug]
         ELSE Bind(tlb_set_index(r), LAMBDA s :
              IF ~ (s.c.next <= TLB_SIZE)
              THEN [abort |-> TRUE, c |-> s.c, debug |-> debug]
              ELSE Bind(tlb_new_entry(ea, flags, ra, pagesize, junk_hit, junk_miss),
                        LAMBDA tnew : tlb_set_entry(s, tnew))))

\* ------------------------------------------------------------- inputs
PAGE_4K == u64(4096)
PAGE_64K == <<0, 0, 1, 0>>
PAGE_16M == <<0, 0, 256, 0>>

\* 0xfffffffffffff005, an address of the topmost 4K page.
TopEA == <<65535, 65535, 65535, 61445>>

\* The tlb_ra_get calls the callers make: <<ea, flags>>. The addresses
\* are in the first two 4K pages (both inside the first 64K and the first
\* 16M page) and in the topmost page of the address space; the flag words
\* are none, the relocation bit and an undefined bit.
GetCalls ==
    { << u64(0),    u64(0) >>,
      << u64(4101), u64(0) >>,
      << u64(4101), TLB_FLAGS_RELOC >>,
      << TopEA,     u64(0) >>,
      << u64(4101), u64(2) >> }

\* The tlb_ra_set calls the callers make: <<ea, flags, ra, pagesize>>.
SetCalls ==
    { << u64(0),    u64(0),          u64(8192),          PAGE_4K  >>,
      << u64(4101), u64(0),          u64(8192),          PAGE_4K  >>,
      << u64(4101), u64(0),          <<0, 0, 1, 12293>>, PAGE_4K  >>,
      << u64(0),    u64(0),          u64(8192),          PAGE_64K >>,
      << TopEA,     u64(0),          u64(8192),          PAGE_4K  >>,
      << u64(0),    u64(2),          u64(8192),          PAGE_4K  >>,
      << u64(0),    u64(0),          u64(8192),          u64(8192) >> }

\* What the unassigned hit_count and miss_count of tnew may hold:
\* <<hit_count, miss_count>>.
Junk == { <<0, 0>>, <<1, 0>> }

\* ------------------------------------------------------------- state
VARIABLES
    tlb,        \* struct tlb_cache tlb
    tlb_debug,  \* int tlb_debug
    aborted,    \* TRUE once an assert has failed
    call,       \* the last call of an operation that writes the cache
                \* (tlb_init, tlb_ra_get, tlb_ra_set), with its arguments
    ret         \* what that call returned: tlb_ra_get's result with *ra and
                \* *pagesize (zero before the call), NoRet for the others

vars == << tlb, tlb_debug, aborted, call, ret >>

NoRet == [found |-> FALSE, ra |-> Zero64, pagesize |-> Zero64]

InitCall == [op |-> "init", ea |-> Zero64, flags |-> Zero64, ra |-> Zero64,
             pagesize |-> Zero64]

\* The sum of the hit and miss counters of slots 0 .. n.
RECURSIVE EntryCounts(_, _)
EntryCounts(c, n) ==
    IF n < 0 THEN 0
    ELSE c.tlb[n].hit_count + c.tlb[n].miss_count + EntryCounts(c, n - 1)

\* The counters stay within the bound of the model.
WithinBounds(c) ==
    c.translations + c.translation_changes + EntryCounts(c, TLB_SIZE - 1) <= MaxCount

\* The state after the process has started and tlb_init() has run.
Init ==
    /\ tlb = ZeroCache
    /\ tlb_debug = 0
    /\ aborted = FALSE
    /\ call = InitCall
    /\ ret = NoRet

TlbInit ==
    /\ ~ aborted
    /\ \E r \in { tlb_init(tlb) } :
          /\ tlb' = r.c
          /\ aborted' = r.abort
    /\ call' = InitCall
    /\ ret' = NoRet
    /\ UNCHANGED tlb_debug

TlbExit ==
    /\ ~ aborted
    /\ \E r \in { tlb_exit(tlb) } :
          /\ tlb' = r.c
          /\ aborted' = r.abort
    /\ UNCHANGED << tlb_debug, call, ret >>

\* tlb_dump only prints.
TlbDump ==
    /\ ~ aborted
    /\ UNCHANGED << tlb, tlb_debug, aborted, call, ret >>

\* The caller assigns the global tlb_debug.
SetDebug ==
    /\ ~ aborted
    /\ \E d \in {0, 1} :
          /\ d # tlb_debug
          /\ tlb_debug' = d
    /\ UNCHANGED << tlb, aborted, call, ret >>

GetStep(ea, flags) ==
    \E r \in { tlb_ra_get(tlb, ea, flags, Zero64, Zero64) } :
       /\ WithinBounds(r.c)
       /\ tlb' = r.c
       /\ aborted' = r.abort
       /\ call' = [op |-> "get", ea |-> ea, flags |-> flags, ra |-> Zero64,
                   pagesize |-> Zero64]
       /\ ret' = [found |-> r.found, ra |-> r.ra, pagesize |-> r.pagesize]
       /\ UNCHANGED tlb_debug

TlbRaGet ==
    /\ ~ aborted
    /\ \E a \in GetCalls : GetStep(a[1], a[2])

SetStep(ea, flags, ra, pagesize, junk_hit, junk_miss) ==
    \E r \in { tlb_ra_set(tlb, tlb_debug, ea, flags, ra, pagesize,
                           junk_hit, junk_miss) } :
       /\ WithinBounds(r.c)
       /\ tlb' = r.c
       /\ aborted' = r.abort
       /\ tlb_debug' = r.debug
       /\ call' = [op |-> "set", ea |-> ea, flags |-> flags, ra |-> ra,
                   pagesize |-> pagesize]
       /\ ret' = NoRet

TlbRaSet ==
    /\ ~ aborted
    /\ \E a \in SetCalls, junk \in Junk :
          SetStep(a[1], a[2], a[3], a[4], junk[1], junk[2])

Next ==
    \/ TlbInit
    \/ TlbExit
    \/ TlbDump
    \/ SetDebug
    \/ TlbRaGet
    \/ TlbRaSet

Spec == Init /\ [][Next]_vars

\* =====================================================================
\* Vocabulary of the properties
\* =====================================================================

\* TRUE iff the mathematical sum a + b is 2^64 or more.
Carry64(a, b) ==
    LET c4 == (a[4] + b[4]) \div Limb
        c3 == (a[3] + b[3] + c4) \div Limb
        c2 == (a[2] + b[2] + c3) \div Limb
    IN  (a[1] + b[1] + c2) \div Limb >= 1

\* x < base + size, the sum taken in the integers.
BelowEnd(x, base, size) == Carry64(base, size) \/ Lt64(x, Add64(base, size))

\* ea lies in the page [t.ea, t.ea + t.size) of the valid entry t and the
\* flags are t's.
InPage(ea, flags, t) ==
    /\ t.valid
    /\ flags = t.flags
    /\ ~ Lt64(ea, t.ea)
    /\ BelowEnd(ea, t.ea, t.size)

\* The pages of two entries share an address.
Overlap(t1, t2) ==
    /\ BelowEnd(t1.ea, t2.ea, t2.size)
    /\ BelowEnd(t2.ea, t1.ea, t1.size)

\* The indices of the stored entries whose page holds ea under flags.
Matching(c, ea, flags) ==
    { i \in Slots : i < c.next /\ InPage(ea, flags, c.tlb[i]) }

\* The first of them in index order, -1 when there is none.
FirstMatching(c, ea, flags) ==
    IF Matching(c, ea, flags) = {} THEN -1
    ELSE CHOOSE i \in Matching(c, ea, flags) :
            \A j \in Matching(c, ea, flags) : i <= j

\* x rounded down to a multiple of a permitted page size.
PageOf(x, size) ==
    IF size = PAGE_4K THEN << x[1], x[2], x[3], x[4] - (x[4] % 4096) >>
    ELSE IF size = PAGE_64K THEN << x[1], x[2], x[3], 0 >>
    ELSE << x[1], x[2], x[3] - (x[3] % 256), 0 >>

PermittedSizes == { PAGE_4K, PAGE_64K, PAGE_16M }

PermittedFlags == { Zero64, TLB_FLAGS_RELOC }

\* The ea, ra, size, flags and valid of an entry.
Mapping(t) == << t.ea, t.ra, t.size, t.flags, t.valid >>

\* The mapping a call set(ea, flags, ra, pagesize) asks for.
Candidate(a) ==
    << PageOf(a.ea, a.pagesize), PageOf(a.ra, a.pagesize), a.pagesize, a.flags, TRUE >>

\* The step is a call of tlb_ra_set, resp. tlb_ra_get, with the arguments in
\* call': each such call writes the cache or aborts, unlike tlb_exit, tlb_dump
\* and an assignment to tlb_debug, which leave call as it is.
IsSetStep == call'.op = "set" /\ (tlb' # tlb \/ aborted')
IsGetStep == call'.op = "get" /\ (tlb' # tlb \/ aborted')

\* ---------------------------------------------------------------------
\* C1: in every state reached through non-aborting calls, no two valid
\* entries with equal flags have overlapping ranges [ea, ea + size).
C1_NoOverlap ==
    ~ aborted =>
        \A i \in Slots, j \in Slots :
            (i < j /\ tlb.tlb[i].valid /\ tlb.tlb[j].valid
               /\ tlb.tlb[i].flags = tlb.tlb[j].flags)
            => ~ Overlap(tlb.tlb[i], tlb.tlb[j])

\* ---------------------------------------------------------------------
\* C2: after a non-aborting set(ea, flags, ra, pagesize), a lookup of any
\* address of ea's page under the same flags (here its first address, ea
\* itself and its last address) is found, with the page size just set and
\* the real address of the page just set plus the offset in the page.
C2_Probes(a) ==
    { PageOf(a.ea, a.pagesize), a.ea,
      Add64(PageOf(a.ea, a.pagesize), Add64(a.pagesize, MinusOne64)) }

C2_SetThenLookup ==
    (call.op = "set" /\ ~ aborted) =>
        \A ea2 \in C2_Probes(call) :
            \A g \in { tlb_ra_get(tlb, ea2, call.flags, Zero64, Zero64) } :
                /\ ~ g.abort
                /\ g.found
                /\ g.pagesize = call.pagesize
                /\ g.ra = Add64(PageOf(call.ra, call.pagesize),
                                Sub64(ea2, PageOf(ea2, call.pagesize)))

\* ---------------------------------------------------------------------
\* C3: in every state that is not aborted, slot i is valid iff
\* i < tlb.next, and 0 <= tlb.next <= TLB_SIZE.
C3_ValidPrefix ==
    ~ aborted =>
        /\ 0 <= tlb.next /\ tlb.next <= TLB_SIZE
        /\ \A i \in Slots : tlb.tlb[i].valid <=> (i < tlb.next)

\* The store is full.
C3_Witness == ~ aborted /\ tlb.next = TLB_SIZE /\ tlb.tlb[TLB_SIZE - 1].valid

\* ---------------------------------------------------------------------
\* C4: in every state that is not aborted, every valid entry has a
\* permitted size, only permitted flag bits, and ea and ra that are
\* multiples of its size, whatever the alignment of the arguments of set.
C4_EntriesWellFormed ==
    ~ aborted =>
        \A i \in Slots :
            tlb.tlb[i].valid =>
                /\ tlb.tlb[i].size \in PermittedSizes
                /\ tlb.tlb[i].flags \in PermittedFlags
                /\ PageOf(tlb.tlb[i].ea, tlb.tlb[i].size) = tlb.tlb[i].ea
                /\ PageOf(tlb.tlb[i].ra, tlb.tlb[i].size) = tlb.tlb[i].ra

\* A set with an ea and an ra that are not multiples of the page size
\* has stored its entry.
C4_Witness ==
    /\ ~ aborted
    /\ call.op = "set"
    /\ PageOf(call.ea, call.pagesize) # call.ea
    /\ PageOf(call.ra, call.pagesize) # call.ra
    /\ \E i \in Slots : Mapping(tlb.tlb[i]) = Candidate(call)

\* A miss on an entry: Junk never gives tnew a miss_count other than 0,
\* so a stored miss_count of 1 on the entry the last set asked for was
\* counted by that set.
C5_Witness ==
    /\ ~ aborted
    /\ call.op = "set"
    /\ \E i \in Slots :
          /\ Mapping(tlb.tlb[i]) = Candidate(call)
          /\ tlb.tlb[i].miss_count = 1

\* ---------------------------------------------------------------------
\* C5: when a non-aborting set resolves to an existing valid entry whose
\* ea, ra, size, flags and valid equal the candidate's, the entry's
\* miss_count grows by one, its mapping is unchanged, and
\* translation_changes and next are unchanged.
C5_MissCase ==
    [][ (IsSetStep /\ ~ aborted') =>
          \A k \in { tlb_get_index(tlb, call'.ea, call'.flags).index } :
              (k >= 0 /\ Mapping(tlb.tlb[k]) = Candidate(call')) =>
                  /\ tlb'.tlb[k].miss_count = tlb.tlb[k].miss_count + 1
                  /\ Mapping(tlb'.tlb[k]) = Mapping(tlb.tlb[k])
                  /\ tlb'.translation_changes = tlb.translation_changes
                  /\ tlb'.next = tlb.next ]_vars

\* ---------------------------------------------------------------------
\* C6: a non-aborting set leaves translation_changes and next alone when
\* the first entry matching (ea, flags) equals the candidate, adds one to
\* translation_changes alone when that entry differs from the candidate,
\* and adds one to next alone when no entry matches (ea, flags).
C6_Accounting ==
    [][ (IsSetStep /\ ~ aborted') =>
          \A k \in { FirstMatching(tlb, call'.ea, call'.flags) } :
              /\ (k >= 0 /\ Mapping(tlb.tlb[k]) = Candidate(call')) =>
                    /\ tlb'.translation_changes = tlb.translation_changes
                    /\ tlb'.next = tlb.next
              /\ (k >= 0 /\ Mapping(tlb.tlb[k]) # Candidate(call')) =>
                    /\ tlb'.translation_changes = tlb.translation_changes + 1
                    /\ tlb'.next = tlb.next
              /\ (k < 0) =>
                    /\ tlb'.translation_changes = tlb.translation_changes
                    /\ tlb'.next = tlb.next + 1 ]_vars

\* ---------------------------------------------------------------------
\* C7: a slot whose mapping a non-aborting set has written (a replaced
\* entry or an appended one) has hit_count = 0 and miss_count = 0 after
\* the call.
C7_CountersReset ==
    [][ (IsSetStep /\ ~ aborted') =>
          \A i \in Slots :
              (Mapping(tlb'.tlb[i]) # Mapping(tlb.tlb[i])) =>
                  /\ tlb'.tlb[i].hit_count = 0
                  /\ tlb'.tlb[i].miss_count = 0 ]_vars

\* ---------------------------------------------------------------------
\* C8: a set with a permitted size and flags on a full store
\* (next = TLB_SIZE) whose (ea, flags) matches no stored entry aborts and
\* leaves the TLB_SIZE entries as they were; a set on a store that is not
\* full, or whose (ea, flags) matches a stored entry, does not abort at
\* the assert on the capacity (tlb.next <= TLB_SIZE).
C8_Capacity ==
    [][ (IsSetStep /\ call'.pagesize \in PermittedSizes
                   /\ call'.flags \in PermittedFlags) =>
          \A m \in { Matching(tlb, call'.ea, call'.flags) } :
              /\ (tlb.next = TLB_SIZE /\ m = {}) =>
                    /\ aborted'
                    /\ tlb'.tlb = tlb.tlb
              /\ (tlb.next < TLB_SIZE \/ m # {}) =>
                    ~ (aborted' /\ tlb'.next > TLB_SIZE) ]_vars

\* ---------------------------------------------------------------------
\* C9: a lookup of an (ea, flags) that no stored entry matches returns
\* not-found, adds one to translations and to no_translation, and leaves
\* every entry, next and translation_changes unchanged.
C9_NotFound ==
    [][ (IsGetStep /\ Matching(tlb, call'.ea, call'.flags) = {}) =>
          /\ ~ aborted'
          /\ ~ ret'.found
          /\ tlb'.translations = tlb.translations + 1
          /\ tlb'.no_translation = tlb.no_translation + 1
          /\ tlb'.tlb = tlb.tlb
          /\ tlb'.next = tlb.next
          /\ tlb'.translation_changes = tlb.translation_changes ]_vars

\* A lookup on a store that is not empty was not found.
C9_Witness ==
    /\ ~ aborted
    /\ call.op = "get"
    /\ ~ ret.found
    /\ tlb.next >= 1
    /\ tlb.no_translation >= 1
    /\ Matching(tlb, call.ea, call.flags) = {}

C11_FoundFrame ==
    [][ (IsGetStep /\ ret'.found) =>
          \A k \in { FirstMatching(tlb, call'.ea, call'.flags) } :
              /\ k >= 0
              /\ ~ aborted'
              /\ tlb' = [tlb EXCEPT !.translations = @ + 1,
                                    !.tlb[k].hit_count = @ + 1] ]_vars

\* A found lookup on a store whose matched entry now counts a hit.
C11_Witness ==
    /\ ~ aborted
    /\ call.op = "get"
    /\ ret.found
    /\ tlb.translations >= 1
    /\ tlb.no_translation = 0
    /\ \E k \in { FirstMatching(tlb, call.ea, call.flags) } :
          k >= 0 /\ tlb.tlb[k].hit_count >= 1

\* ---------------------------------------------------------------------
\* C12: a set with a pagesize outside {4096, 65536, 16777216} or with a
\* flag bit that is not permitted aborts and changes nothing: the
\* entries with their counters, next and the aggregate counters are as
\* before the call.
C12_InvalidArguments ==
    [][ (IsSetStep /\ (call'.pagesize \notin PermittedSizes
                       \/ call'.flags \notin PermittedFlags)) =>
          /\ aborted'
          /\ tlb' = tlb
          /\ tlb_debug' = tlb_debug ]_vars

\* A set with a pagesize that is not permitted has aborted on a store
\* that holds an entry.
C12_Witness ==
    /\ aborted
    /\ call.op = "set"
    /\ call.pagesize \notin PermittedSizes
    /\ tlb.next >= 1

\* ---------------------------------------------------------------------
\* C13: a lookup whose flags hold a bit outside the permitted flags
\* aborts, whatever the store holds.
C13_LookupFlags ==
    [][ (IsGetStep /\ call'.flags \notin PermittedFlags) => aborted' ]_vars

\* ---------------------------------------------------------------------
\* C14: in every state reached through non-aborting operations, teardown
\* (the validation of the whole store) does not abort and leaves the
\* entries with their counters, next and the aggregate counters as they
\* are.
C14_TeardownFrame ==
    ~ aborted =>
        \A r \in { tlb_exit(tlb) } :
            /\ ~ r.abort
            /\ r.c = tlb

\* A full store, with a hit counted and a lookup counted, on which
\* teardown runs.
C14_Witness ==
    /\ ~ aborted
    /\ tlb.next = TLB_SIZE
    /\ tlb.translations >= 1
    /\ \E i \in Slots : tlb.tlb[i].hit_count >= 1
    /\ tlb_exit(tlb).c = tlb

\* The cache c is empty: next = 0, every slot invalid, the three
\* aggregate counters 0.
IsEmpty(c) ==
    /\ c.next = 0
    /\ \A i \in Slots : ~ c.tlb[i].valid
    /\ c.translations = 0
    /\ c.no_translation = 0
    /\ c.translation_changes = 0

\* ---------------------------------------------------------------------
\* C15: init, called in any state that is not aborted, does not abort
\* and yields the empty cache; the cache stays empty until a set, and a
\* lookup on it returns not-found.
C15_InitEmpty ==
    /\ ~ aborted =>
          \A r \in { tlb_init(tlb) } : ~ r.abort /\ IsEmpty(r.c)
    /\ call.op = "init" => (~ aborted /\ IsEmpty(tlb))
    /\ (call.op = "get" /\ tlb.next = 0) =>
          /\ ~ aborted
          /\ ~ ret.found
          /\ \A i \in Slots : ~ tlb.tlb[i].valid
          /\ tlb.no_translation = tlb.translations

\* init applies to a full store that has counted a lookup.
C15_Witness ==
    /\ ~ aborted
    /\ call.op = "get"
    /\ tlb.next = TLB_SIZE
    /\ tlb.translations >= 1
    /\ IsEmpty(tlb_init(tlb).c)

\* ---------------------------------------------------------------------
\* C16: no operation of the cache (init, lookup, set, teardown, dump)
\* changes tlb_debug: a step that is not the caller's assignment to
\* tlb_debug leaves it as it is.
C16_DebugKept ==
    [][ (tlb' # tlb \/ aborted' # aborted \/ call' # call \/ ret' # ret)
          => tlb_debug' = tlb_debug ]_vars

\* ---------------------------------------------------------------------
\* C17: for every probed (ea, flags) and every start, the scan from
\* start returns the lowest index i with start <= i < next whose entry
\* has the probed flags and t.ea <= ea < t.ea + t.size, the sum taken in
\* the integers, and returns -1 only when there is no such index.
C17_Find ==
    ~ aborted =>
        \A a \in GetCalls, start \in 0 .. TLB_SIZE :
            \A m \in { { i \in Matching(tlb, a[1], a[2]) : i >= start } } :
                \A r \in { __tlb_get_index(tlb, a[1], a[2], start) } :
                    /\ ~ r.abort
                    /\ (m = {}) => (r.index = -1)
                    /\ (m # {}) => (r.index \in m /\ \A j \in m : r.index <= j)

\* ---------------------------------------------------------------------
\* C18: when a non-aborting set resolves to an existing entry that
\* equals the candidate, the cache after the call is the cache before it
\* with that entry's miss_count one higher: in particular the entry's
\* hit_count is the same after the call as before it.
C18_MissKeepsHits ==
    [][ (IsSetStep /\ ~ aborted') =>
          \A k \in { tlb_get_index(tlb, call'.ea, call'.flags).index } :
              (k >= 0 /\ Mapping(tlb.tlb[k]) = Candidate(call')) =>
                  /\ tlb'.tlb[k].hit_count = tlb.tlb[k].hit_count
                  /\ tlb' = [tlb EXCEPT !.tlb[k].miss_count = @ + 1] ]_vars

\* ---------------------------------------------------------------------
\* C19: a non-aborting set changes no slot other than the one it
\* resolves to (the first entry matching (ea, flags), else the slot at
\* next): every other slot keeps all its fields, counters included, and
\* translations and no_translation are unchanged.
C19_SetFrame ==
    [][ (IsSetStep /\ ~ aborted') =>
          \A f \in { FirstMatching(tlb, call'.ea, call'.flags) } :
              \A k \in { IF f >= 0 THEN f ELSE tlb.next } :
                  /\ \A i \in Slots \ {k} : tlb'.tlb[i] = tlb.tlb[i]
                  /\ tlb'.translations = tlb.translations
                  /\ tlb'.no_translation = tlb.no_translation ]_vars

\* ---------------------------------------------------------------------
\* C20: on every step other than an init, next does not decrease and
\* grows by at most one, and only in a set; a valid slot stays valid;
\* and a step that is not a set (lookup, teardown, dump) leaves the ea,
\* ra, size, flags and valid of every slot as they are.
C20_NoDelete ==
    [][ \/ (call'.op = "init" /\ call.op # "init")
        \/ /\ tlb'.next >= tlb.next
           /\ tlb'.next <= tlb.next + 1
           /\ (tlb'.next # tlb.next) => IsSetStep
           /\ \A i \in Slots : tlb.tlb[i].valid => tlb'.tlb[i].valid
           /\ (~ IsSetStep) =>
                 \A i \in Slots : Mapping(tlb'.tlb[i]) = Mapping(tlb.tlb[i]) ]_vars

\* A store filled by appending sets, one of whose entries a later set
\* has replaced.
C20_Witness ==
    /\ ~ aborted
    /\ call.op = "set"
    /\ tlb.next = TLB_SIZE
    /\ tlb.translation_changes >= 1
    /\ \A i \in Slots : tlb.tlb[i].valid

====
